---- MODULE Spec2Model ----
(***************************************************************************)
(* A model of arff_utils.ARFF (src/arff_utils/arff_utils.py): the ARFF     *)
(* data dictionaries and the operations append, merge, sort_by and read.   *)
(*                                                                         *)
(* The dictionaries are Python objects, and append and merge hand the      *)
(* lists of their inputs on to their results, so the model keeps a heap:   *)
(* an attribute list and a data row are objects with an identity, and a    *)
(* dictionary refers to them by that identity.  The list under 'data' is   *)
(* created afresh by every operation that returns a new dictionary         *)
(* (lines 199, 271) and is never handed on, so it is kept inside the       *)
(* dictionary, as a sequence of row identities.                            *)
(*                                                                         *)
(* Indexes are those of the code: 0-based, -1 for "not found".             *)
(*                                                                         *)
(* Three specifications: Spec, runs of up to MaxCalls calls of append,     *)
(* merge and sort_by on two loaded data sets; SpecAppend, one append on    *)
(* two loaded data sets drawn from a wider range of schemas; SpecRead, one *)
(* read of a parsed table.                                                 *)
(***************************************************************************)
EXTENDS Integers, Sequences, FiniteSets

VARIABLES
    datasets,   \* the data dictionaries, by identity 1..Len(datasets)
    attrLists,  \* the attribute-list objects: identity -> sequence of attributes
    rowObjs,    \* the data-row objects: identity -> sequence of cells
    last,       \* the last call made: operation, arguments and outcome
    calls,      \* the number of calls made so far
    table,      \* read: the dictionary arff.load returned, then as read left it
    readCall    \* read: the 'missing' argument and the outcome of the call

vars == <<datasets, attrLists, rowObjs, last, calls, table, readCall>>

heap == <<datasets, attrLists, rowObjs>>

(***************************************************************************)
(* Bounds of the model.                                                    *)
(***************************************************************************)
MaxRows == 2        \* rows of a loaded data set: 0..MaxRows
MaxKey == 2         \* values of the first cell of a loaded row: 1..MaxKey
MaxCalls == 2       \* calls of append, merge and sort_by in one run
MaxCols == 2        \* length of the 'attributes' argument of merge
MaxTableRows == 2   \* read: rows of the parsed table: 0..MaxTableRows
MaxRowLen == 2      \* read: cells of a parsed row: 0..MaxRowLen
MaxTokens == 2      \* read: tokens of a list or tuple given as 'missing'

(***************************************************************************)
(* Attributes.  In the code an attribute is a pair (name, type) whose type *)
(* is a type keyword or, for a nominal attribute, the list of its values   *)
(* (type(attribute[1]) is list).  Here: the name, whether the type is a    *)
(* list, and the type as a sequence (the keyword alone, or the values).    *)
(***************************************************************************)
Keyword(n, kw) == [name |-> n, nominal |-> FALSE, type |-> <<kw>>]

Nominal(n, values) == [name |-> n, nominal |-> TRUE, type |-> values]

(***************************************************************************)
(* Outcome of a call: kind "ok" and the returned dictionary ds, or the     *)
(* exception raised: its class in kind, its message in msg and the indexes *)
(* the message carries in pos and sub (-1: the message carries none).      *)
(***************************************************************************)
Returned(d) == [kind |-> "ok", msg |-> "", pos |-> -1, sub |-> -1, ds |-> d]

Raised(kind, msg, pos, sub) == [kind |-> kind, msg |-> msg, pos |-> pos, sub |-> sub, ds |-> 0]

NoError == Returned(0)

NoCall == [op |-> "none", a |-> 0, b |-> 0, name |-> "", columns |-> <<>>, out |-> NoError]

(***************************************************************************)
(* ARFF.index_of and ARFF.contains.                                        *)
(***************************************************************************)
index_of(attributes, attribute) ==
    IF \E i \in 1..Len(attributes) : attributes[i].name = attribute
    THEN (CHOOSE i \in 1..Len(attributes) :
            /\ attributes[i].name = attribute
            /\ \A j \in 1..(i - 1) : attributes[j].name # attribute) - 1
    ELSE -1

contains(attributes, attribute) == index_of(attributes, attribute) > -1

(***************************************************************************)
(* The values of a dictionary: its attributes and its rows, read through   *)
(* the heap.                                                               *)
(***************************************************************************)
AttributesOf(d) == attrLists[datasets[d].attributes]

RowsOf(d) == [i \in 1..Len(datasets[d].data) |-> rowObjs[datasets[d].data[i]]]

DatasetValue(d) ==
    [relation |-> datasets[d].relation, attributes |-> AttributesOf(d),
     rows |-> RowsOf(d), description |-> datasets[d].description]

(***************************************************************************)
(* ARFF.append, lines 177-196: the comparison of the two attribute lists.  *)
(* unicode(x) == unicode(y) is equality of the two texts; the text of a    *)
(* list of values is never that of a type keyword.                         *)
(***************************************************************************)
RECURSIVE CheckNominal(_, _, _, _)
CheckNominal(values1, values2, i, j) ==
    IF j >= Len(values1) THEN NoError
    ELSE IF j >= Len(values2)
        THEN Raised("IndexError", "list index out of range", -1, -1)
    ELSE IF values1[j + 1] # values2[j + 1]
        THEN Raised("RuntimeError", "Mismatching nominal values", i, j)
    ELSE CheckNominal(values1, values2, i, j + 1)

CheckAttribute(attribute1, attribute2, i) ==
    IF attribute1.name # attribute2.name
        THEN Raised("RuntimeError", "Mismatching names", i, -1)
    ELSE IF attribute1.nominal /\ attribute2.nominal
        THEN CheckNominal(attribute1.type, attribute2.type, i, 0)
    ELSE IF attribute1.nominal # attribute2.nominal \/ attribute1.type # attribute2.type
        THEN Raised("RuntimeError", "Mismatching attribute types", -1, -1)
    ELSE NoError

RECURSIVE CheckAttributes(_, _, _)
CheckAttributes(attributes1, attributes2, i) ==
    IF i >= Len(attributes1) THEN NoError
    ELSE LET r == CheckAttribute(attributes1[i + 1], attributes2[i + 1], i)
         IN  IF r.kind # "ok" THEN r
             ELSE CheckAttributes(attributes1, attributes2, i + 1)

(***************************************************************************)
(* ARFF.append, lines 171-196: the checks, in the order of the code.  The  *)
(* 'description' key is present in every dictionary here, as it is in the  *)
(* dictionaries arff.load, from_data_frame, append and merge return, so    *)
(* lines 162-165 apply and the description is data1's.                     *)
(***************************************************************************)
AppendCheck(data1, data2) ==
    IF datasets[data1].relation # datasets[data2].relation
        THEN Raised("RuntimeError", "Mismatching relations", -1, -1)
    ELSE IF Len(AttributesOf(data1)) # Len(AttributesOf(data2))
        THEN Raised("RuntimeError", "Mismatch number of attributes", -1, -1)
    ELSE CheckAttributes(AttributesOf(data1), AttributesOf(data2), 0)

\* A variant of AppendResult that takes relation, attributes and description
\* from data2.
AppendResultOfData2(data1, data2) ==
    [relation |-> datasets[data2].relation,
     attributes |-> datasets[data2].attributes,
     data |-> datasets[data1].data \o datasets[data2].data,
     description |-> datasets[data2].description]

AppendResult(data1, data2) ==
    [relation |-> datasets[data1].relation,
     attributes |-> datasets[data1].attributes,
     data |-> datasets[data1].data \o datasets[data2].data,
     description |-> datasets[data1].description]

append(data1, data2) ==
    /\ calls < MaxCalls
    /\ calls' = calls + 1
    /\ LET out == AppendCheck(data1, data2) IN
        IF out.kind = "ok"
        THEN /\ datasets' = Append(datasets, AppendResult(data1, data2))
             /\ last' = [op |-> "append", a |-> data1, b |-> data2, name |-> "",
                         columns |-> <<>>, out |-> Returned(Len(datasets) + 1)]
        ELSE /\ datasets' = datasets
             /\ last' = [op |-> "append", a |-> data1, b |-> data2, name |-> "",
                         columns |-> <<>>, out |-> out]
    /\ UNCHANGED <<attrLists, rowObjs, table, readCall>>

(***************************************************************************)
(* ARFF.merge, lines 222-237: the checks made before anything is changed.  *)
(* The messages name the attribute, not a position.                        *)
(***************************************************************************)
\* A variant of MergeCheck that runs the loop of lines 235-237 before the loop
\* of lines 230-232.
MergeCheckDuplicatesFirst(data1, data2, join_by, attributes) ==
    IF ~contains(AttributesOf(data1), join_by)
        THEN Raised("RuntimeError", "missing from data1", -1, -1)
    ELSE IF ~contains(AttributesOf(data2), join_by)
        THEN Raised("RuntimeError", "missing from data2", -1, -1)
    ELSE IF \E n \in 1..Len(attributes) : contains(AttributesOf(data1), attributes[n])
        THEN Raised("RuntimeError", "already exists in data1", -1, -1)
    ELSE IF \E n \in 1..Len(attributes) : ~contains(AttributesOf(data2), attributes[n])
        THEN Raised("RuntimeError", "missing from data2", -1, -1)
    ELSE NoError

MergeCheck(data1, data2, join_by, attributes) ==
    IF ~contains(AttributesOf(data1), join_by)
        THEN Raised("RuntimeError", "missing from data1", -1, -1)
    ELSE IF ~contains(AttributesOf(data2), join_by)
        THEN Raised("RuntimeError", "missing from data2", -1, -1)
    ELSE IF \E n \in 1..Len(attributes) : ~contains(AttributesOf(data2), attributes[n])
        THEN Raised("RuntimeError", "missing from data2", -1, -1)
    ELSE IF \E n \in 1..Len(attributes) : contains(AttributesOf(data1), attributes[n])
        THEN Raised("RuntimeError", "already exists in data1", -1, -1)
    ELSE NoError

(***************************************************************************)
(* ARFF.merge, lines 245-249: the lookup table of data2's rows by the cell *)
(* at join_idx2; a later row replaces an earlier one with the same key.    *)
(* A row too short for join_idx2 raises IndexError.  The table holds the   *)
(* row objects themselves.                                                 *)
(***************************************************************************)
LookupCheck(data2, join_idx2) ==
    IF \E n \in 1..Len(datasets[data2].data) :
            join_idx2 >= Len(rowObjs[datasets[data2].data[n]])
    THEN Raised("IndexError", "list index out of range", -1, -1)
    ELSE NoError

data2_lookup(data2, join_idx2) ==
    LET data == datasets[data2].data
        keys == {rowObjs[data[n]][join_idx2 + 1] : n \in 1..Len(data)}
    IN  [key \in keys |->
            data[CHOOSE n \in 1..Len(data) :
                    /\ rowObjs[data[n]][join_idx2 + 1] = key
                    /\ \A m \in (n + 1)..Len(data) :
                            rowObjs[data[m]][join_idx2 + 1] # key]]

(***************************************************************************)
(* ARFF.merge, lines 253-255 and 259-262: the indexes in data2 of the      *)
(* attributes asked for, and data1's own attribute list after they were    *)
(* appended to it (attributes_extended is data1['attributes'] itself).     *)
(***************************************************************************)
attribute_indexes(data2, attributes) ==
    [n \in 1..Len(attributes) |-> index_of(AttributesOf(data2), attributes[n])]

\* A variant of attributes_extended that appends the attributes asked for in
\* the order data2 holds them.
attributes_in_schema_order(data1, data2, attributes) ==
    AttributesOf(data1) \o
        SelectSeq(AttributesOf(data2),
                  LAMBDA attribute :
                    \E n \in 1..Len(attributes) : attributes[n] = attribute.name)

attributes_extended(data1, data2, attributes) ==
    AttributesOf(data1) \o
        [n \in 1..Len(attributes) |->
            AttributesOf(data2)[attribute_indexes(data2, attributes)[n] + 1]]

(***************************************************************************)
(* ARFF.merge, lines 272-277: the loop over data1's rows.  data_row is the *)
(* row object of data1, and data_row.append changes it in place; ro is the *)
(* row heap as the loop has left it so far.  A key that is not in the      *)
(* lookup table raises KeyError (line 274) and ends the loop there.        *)
(***************************************************************************)
RECURSIVE ExtendRow(_, _, _, _, _)
ExtendRow(ro, data_row, data_row2, indexes, n) ==
    IF n > Len(indexes) THEN [rows |-> ro, out |-> NoError]
    ELSE IF indexes[n] >= Len(ro[data_row2])
        THEN [rows |-> ro, out |-> Raised("IndexError", "list index out of range", -1, -1)]
    ELSE ExtendRow([ro EXCEPT ![data_row] = Append(@, ro[data_row2][indexes[n] + 1])],
                   data_row, data_row2, indexes, n + 1)

RECURSIVE MergeRows(_, _, _, _, _, _)
MergeRows(ro, data, i, join_idx1, lookup, indexes) ==
    IF i >= Len(data) THEN [rows |-> ro, out |-> NoError]
    ELSE IF join_idx1 >= Len(ro[data[i + 1]])
        THEN [rows |-> ro, out |-> Raised("IndexError", "list index out of range", -1, -1)]
    ELSE IF ro[data[i + 1]][join_idx1 + 1] \notin DOMAIN lookup
        THEN [rows |-> ro, out |-> Raised("KeyError", "key", i, -1)]
    ELSE LET e == ExtendRow(ro, data[i + 1], lookup[ro[data[i + 1]][join_idx1 + 1]],
                            indexes, 1)
         IN  IF e.out.kind # "ok" THEN e
             ELSE MergeRows(e.rows, data, i + 1, join_idx1, lookup, indexes)

MergeResult(data1) ==
    [relation |-> datasets[data1].relation,
     attributes |-> datasets[data1].attributes,
     data |-> datasets[data1].data,
     description |-> ""]

MergeCall(data1, data2, join_by, attributes, out) ==
    [op |-> "merge", a |-> data1, b |-> data2, name |-> join_by,
     columns |-> attributes, out |-> out]

merge(data1, data2, join_by, attributes) ==
    /\ calls < MaxCalls
    /\ calls' = calls + 1
    /\ LET check == MergeCheck(data1, data2, join_by, attributes)
           join_idx1 == index_of(AttributesOf(data1), join_by)
           join_idx2 == index_of(AttributesOf(data2), join_by)
       IN
        IF check.kind # "ok"
        THEN /\ last' = MergeCall(data1, data2, join_by, attributes, check)
             /\ UNCHANGED heap
        ELSE IF LookupCheck(data2, join_idx2).kind # "ok"
        THEN /\ last' = MergeCall(data1, data2, join_by, attributes,
                                  LookupCheck(data2, join_idx2))
             /\ UNCHANGED heap
        ELSE LET m == MergeRows(rowObjs, datasets[data1].data, 0, join_idx1,
                                data2_lookup(data2, join_idx2),
                                attribute_indexes(data2, attributes))
             IN
             /\ attrLists' = [attrLists EXCEPT ![datasets[data1].attributes] =
                                attributes_extended(data1, data2, attributes)]
             /\ rowObjs' = m.rows
             /\ IF m.out.kind = "ok"
                THEN /\ datasets' = Append(datasets, MergeResult(data1))
                     /\ last' = MergeCall(data1, data2, join_by, attributes,
                                          Returned(Len(datasets) + 1))
                ELSE /\ datasets' = datasets
                     /\ last' = MergeCall(data1, data2, join_by, attributes, m.out)
    /\ UNCHANGED <<table, readCall>>

(***************************************************************************)
(* ARFF.sort_by, lines 376-380.  list.sort(key=...) is stable and          *)
(* ascending; it computes every key before it moves a row, so a row too    *)
(* short for index i raises IndexError with the list as it was.            *)
(***************************************************************************)
RECURSIVE InsertRow(_, _, _)
InsertRow(sorted, row, i) ==
    IF sorted = <<>> THEN <<row>>
    ELSE IF rowObjs[Head(sorted)][i + 1] > rowObjs[row][i + 1] THEN <<row>> \o sorted
    ELSE <<Head(sorted)>> \o InsertRow(Tail(sorted), row, i)

RECURSIVE SortedRows(_, _)
SortedRows(data, i) ==
    IF data = <<>> THEN <<>>
    ELSE InsertRow(SortedRows(SubSeq(data, 1, Len(data) - 1), i), data[Len(data)], i)

SortCall(data, attribute, out) ==
    [op |-> "sort_by", a |-> data, b |-> 0, name |-> attribute, columns |-> <<>>,
     out |-> out]

sort_by(data, attribute) ==
    /\ calls < MaxCalls
    /\ calls' = calls + 1
    /\ LET i == index_of(AttributesOf(data), attribute) IN
        IF i < 0
        THEN /\ last' = SortCall(data, attribute,
                                 Raised("RuntimeError", "Attribute not found", -1, -1))
             /\ datasets' = datasets
        ELSE IF \E n \in 1..Len(datasets[data].data) :
                    i >= Len(rowObjs[datasets[data].data[n]])
        THEN /\ last' = SortCall(data, attribute,
                                 Raised("IndexError", "list index out of range", -1, -1))
             /\ datasets' = datasets
        ELSE /\ last' = SortCall(data, attribute, Returned(data))
             /\ datasets' = [datasets EXCEPT ![data].data = SortedRows(@, i)]
    /\ UNCHANGED <<attrLists, rowObjs, table, readCall>>

(***************************************************************************)
(* The data sets a run starts from: two dictionaries as arff.load returns  *)
(* them, each with its own attribute list and its own rows.  The first     *)
(* cell of a row is drawn from 1..MaxKey; every other cell holds a value   *)
(* found in no other cell, so that the row a merged value came from and    *)
(* the order tied rows are left in can be read off the result.             *)
(***************************************************************************)
KX == <<Keyword("k", "NUMERIC"), Keyword("x", "NUMERIC")>>

KXReal == <<Keyword("k", "NUMERIC"), Keyword("x", "REAL")>>

KXInteger == <<Keyword("k", "NUMERIC"), Keyword("x", "INTEGER")>>

XK == <<Keyword("x", "NUMERIC"), Keyword("k", "NUMERIC")>>

KOnly == <<Keyword("k", "NUMERIC")>>

KYZ == <<Keyword("k", "NUMERIC"), Keyword("y", "NUMERIC"), Nominal("z", <<"p", "q">>)>>

KZ1 == <<Keyword("k", "NUMERIC"), Nominal("z", <<"p">>)>>

KZ2 == <<Keyword("k", "NUMERIC"), Nominal("z", <<"p", "q">>)>>

KZ2Swapped == <<Keyword("k", "NUMERIC"), Nominal("z", <<"q", "p">>)>>

KZString == <<Keyword("k", "NUMERIC"), Keyword("z", "STRING")>>

Loaded(attributes1, attributes2, relation2, description2) ==
    [attributes1 |-> attributes1, attributes2 |-> attributes2,
     relation2 |-> relation2, description2 |-> description2]

MergeLoads == { Loaded(KX, KYZ, "r", "") }

AppendLoads ==
    { Loaded(KX, KX, "r", "d"),
      Loaded(KX, KX, "s", ""),
      Loaded(KX, KXReal, "r", ""),
      Loaded(KX, KXInteger, "r", ""),
      Loaded(KX, XK, "r", ""),
      Loaded(KX, KOnly, "r", ""),
      Loaded(KX, KZ2, "r", ""),
      Loaded(KZ1, KZ2, "r", ""),
      Loaded(KZ2, KZ2Swapped, "r", ""),
      Loaded(KZ2, KZ2, "r", "d"),
      Loaded(KZ1, KZString, "r", "") }

KeySeqs == UNION {[1..n -> 1..MaxKey] : n \in 0..MaxRows}

LoadedRow(key, row, width) == [c \in 1..width |-> IF c = 1 THEN key ELSE 10 * row + c]

NoTable == [relation |-> "", attributes |-> <<>>, data |-> <<>>]

NoRead == [called |-> FALSE, type |-> "NoneType", tokens |-> <<>>, out |-> NoError]

InitLoaded(loads) ==
    \E ld \in loads, keys1 \in KeySeqs, keys2 \in KeySeqs :
        /\ attrLists = <<ld.attributes1, ld.attributes2>>
        /\ rowObjs =
            [row \in 1..(Len(keys1) + Len(keys2)) |->
                IF row <= Len(keys1)
                THEN LoadedRow(keys1[row], row, Len(ld.attributes1))
                ELSE LoadedRow(keys2[row - Len(keys1)], row, Len(ld.attributes2))]
        /\ datasets =
            << [relation |-> "r", attributes |-> 1,
                data |-> [n \in 1..Len(keys1) |-> n], description |-> ""],
               [relation |-> ld.relation2, attributes |-> 2,
                data |-> [n \in 1..Len(keys2) |-> Len(keys1) + n],
                description |-> ld.description2] >>
        /\ last = NoCall
        /\ calls = 0
        /\ table = NoTable
        /\ readCall = NoRead

Init == InitLoaded(MergeLoads)

InitAppend == InitLoaded(AppendLoads)

(***************************************************************************)
(* The arguments the calls are made with.                                  *)
(***************************************************************************)
Names == {"k", "y"}

ColumnLists == UNION {[1..n -> {"y", "z"}] : n \in 0..MaxCols}

Ids == 1..Len(datasets)

Next ==
    \/ \E data1 \in Ids, data2 \in Ids : append(data1, data2)
    \/ \E data1 \in Ids, data2 \in Ids, join_by \in Names, attributes \in ColumnLists :
            merge(data1, data2, join_by, attributes)
    \/ \E data \in Ids, attribute \in Names : sort_by(data, attribute)

Spec == Init /\ [][Next]_vars

\* append alone, applied once to two loaded data sets.
NextAppend == \E data1 \in Ids, data2 \in Ids : calls = 0 /\ append(data1, data2)

SpecAppend == InitAppend /\ [][NextAppend]_vars

(***************************************************************************)
(* ARFF.read, lines 22-35.  table is the dictionary arff.load returned:    *)
(* its relation, its attributes and its data, where a cell is a text or    *)
(* None (arff.load has already made None of an unquoted ?).  The 'missing' *)
(* argument is its Python type and the tokens it holds: one for a str or a *)
(* unicode, any number for a list or a tuple, none for None and for a      *)
(* dict.                                                                   *)
(***************************************************************************)
None == "<None>"

Tokens == {"NA", "?"}

Cells == Tokens \cup {None}

TokenSeqs == UNION {[1..n -> Tokens] : n \in 0..MaxTokens}

MissingArgs ==
    {[type |-> "NoneType", tokens |-> <<>>], [type |-> "dict", tokens |-> <<>>]}
    \cup {[type |-> t, tokens |-> <<m>>] : t \in {"str", "unicode"}, m \in Tokens}
    \cup {[type |-> t, tokens |-> ms] : t \in {"list", "tuple"}, ms \in TokenSeqs}

TableRows == UNION {[1..n -> Cells] : n \in 0..MaxRowLen}

Tables == UNION {[1..n -> TableRows] : n \in 0..MaxTableRows}

Headers == {[relation |-> "r", attributes |-> KOnly],
            [relation |-> "s", attributes |-> KX]}

ParsedTables ==
    {[relation |-> h.relation, attributes |-> h.attributes, data |-> d] :
        h \in Headers, d \in Tables}

(* Lines 26-34, for one cell: the cell as the pass leaves it.  The type    *)
(* test is made anew for every cell, and only there.                       *)
InvalidType(missing) == missing.type \notin {"str", "list"}

\* A variant of ConvertCell that compares a cell with the first token of a
\* list only.
ConvertCellFirstToken(cell, missing) ==
    IF missing.type = "str"
    THEN IF cell = missing.tokens[1] THEN None ELSE cell
    ELSE IF Len(missing.tokens) > 0 /\ cell = missing.tokens[1] THEN None
    ELSE cell

ConvertCell(cell, missing) ==
    IF missing.type = "str"
    THEN IF cell = missing.tokens[1] THEN None ELSE cell
    ELSE IF \E m \in 1..Len(missing.tokens) : cell = missing.tokens[m] THEN None
    ELSE cell

(* Lines 23-25: the loops reach a cell only if missing is not None and the *)
(* table has a row that has a cell.                                        *)
ReachesCell(data, missing) ==
    /\ missing.type # "NoneType"
    /\ \E i \in 1..Len(data) : Len(data[i]) > 0

read(missing) ==
    /\ ~readCall.called
    /\ IF ReachesCell(table.data, missing) /\ InvalidType(missing)
       THEN /\ table' = table
            /\ readCall' = [called |-> TRUE, type |-> missing.type,
                            tokens |-> missing.tokens,
                            out |-> Raised("RuntimeError",
                                           "Invalid type for 'missing' parameter", -1, -1)]
       ELSE /\ table' = IF missing.type = "NoneType" THEN table
                        ELSE [table EXCEPT !.data =
                                [i \in 1..Len(table.data) |->
                                    [j \in 1..Len(table.data[i]) |->
                                        ConvertCell(table.data[i][j], missing)]]]
            /\ readCall' = [called |-> TRUE, type |-> missing.type,
                            tokens |-> missing.tokens, out |-> NoError]
    /\ UNCHANGED <<datasets, attrLists, rowObjs, last, calls>>

InitRead ==
    /\ table \in ParsedTables
    /\ readCall = NoRead
    /\ datasets = <<>>
    /\ attrLists = <<>>
    /\ rowObjs = <<>>
    /\ last = NoCall
    /\ calls = 0

NextRead == \E missing \in MissingArgs : read(missing)

SpecRead == InitRead /\ [][NextRead]_vars

(***************************************************************************)
(*                              The claims                                 *)
(*                                                                         *)
(* The terms of the specification, read on the model.  The code raises     *)
(* RuntimeError throughout; the error of the specification is told by the  *)
(* message.  An exception of another class (KeyError, IndexError) is none  *)
(* of the specification's errors.                                          *)
(***************************************************************************)
SchemaMismatch(out) ==
    /\ out.kind = "RuntimeError"
    /\ out.msg \in {"Mismatching names", "Mismatching nominal values",
                    "Mismatching attribute types"}

AttributeNotFound(out) ==
    /\ out.kind = "RuntimeError"
    /\ out.msg \in {"missing from data1", "missing from data2", "Attribute not found"}

DuplicateAttribute(out) ==
    out.kind = "RuntimeError" /\ out.msg = "already exists in data1"

InvalidArgument(out) ==
    out.kind = "RuntimeError" /\ out.msg = "Invalid type for 'missing' parameter"

NamesOf(attributes) == {attributes[i].name : i \in 1..Len(attributes)}

\* The position (from 1) of the first attribute of that name.
PositionOf(attributes, n) ==
    CHOOSE i \in 1..Len(attributes) :
        /\ attributes[i].name = n
        /\ \A j \in 1..(i - 1) : attributes[j].name # n

\* The structural invariants of a data set: every row as long as the schema,
\* and no attribute name twice.
RowsFitSchema(d) ==
    \A n \in 1..Len(datasets[d].data) :
        Len(rowObjs[datasets[d].data[n]]) = Len(AttributesOf(d))

UniqueNames(d) ==
    \A i, j \in 1..Len(AttributesOf(d)) :
        AttributesOf(d)[i].name = AttributesOf(d)[j].name => i = j

\* The Validator's checks (specification, 4.2).
Valid(d) ==
    /\ datasets[d].relation # ""
    /\ Len(AttributesOf(d)) >= 1
    /\ Len(datasets[d].data) >= 1
    /\ RowsFitSchema(d)

\* The preconditions of merge (specification, 4.4).
MergePreconditions(primary, secondary, joinKey, columns) ==
    /\ Valid(primary) /\ Valid(secondary)
    /\ joinKey \in NamesOf(AttributesOf(primary))
    /\ joinKey \in NamesOf(AttributesOf(secondary))
    /\ \A n \in 1..Len(columns) :
        /\ columns[n] \in NamesOf(AttributesOf(secondary))
        /\ columns[n] \notin NamesOf(AttributesOf(primary))

\* The rows the specification's merge returns: the primary rows whose key
\* occurs in secondary, in order, each followed by the cells of the columns
\* from the last secondary row with that key.
JoinedRows(primary, secondary, joinKey, columns) ==
    LET prows == RowsOf(primary)
        srows == RowsOf(secondary)
        k1 == PositionOf(AttributesOf(primary), joinKey)
        k2 == PositionOf(AttributesOf(secondary), joinKey)
        Matched(row) == \E n \in 1..Len(srows) : srows[n][k2] = row[k1]
        LastMatch(row) ==
            CHOOSE n \in 1..Len(srows) :
                /\ srows[n][k2] = row[k1]
                /\ \A m \in (n + 1)..Len(srows) : srows[m][k2] # row[k1]
        kept == SelectSeq(prows, Matched)
    IN  [n \in 1..Len(kept) |->
            kept[n] \o [c \in 1..Len(columns) |->
                srows[LastMatch(kept[n])][PositionOf(AttributesOf(secondary), columns[c])]]]

\* C1: when its preconditions hold, merge completes without error and returns
\* exactly the primary rows whose key occurs in secondary, in primary's
\* order, each extended with the cells of the columns from the last secondary
\* row with that key; a primary row without a match is dropped, which is no
\* error.
C1_MergeJoinsAndDrops ==
    [][ \A call \in {last'} :
            (/\ call.op = "merge"
             /\ MergePreconditions(call.a, call.b, call.name, call.columns))
            => /\ call.out.kind = "ok"
               /\ RowsOf(call.out.ds)' =
                    JoinedRows(call.a, call.b, call.name, call.columns) ]_vars

\* The inputs of the last call hold what they held before it.
InputsUnchanged(call) ==
    /\ DatasetValue(call.a)' = DatasetValue(call.a)
    /\ DatasetValue(call.b)' = DatasetValue(call.b)

\* C2: append and merge leave every input data set unchanged: the attribute
\* list and every row of each input hold after the call what they held before
\* it.  (The claim goes on: the result shares no schema and no row with an
\* input, so that no later call changes an input either.  The formula states
\* the first sentence.)
C2_InputsUnchanged ==
    [][ \A call \in {last'} :
            call.op \in {"append", "merge"} => InputsUnchanged(call) ]_vars

\* C3: after any sequence of append, merge and sort_by calls, failed ones
\* included, every data set that exists has rows as long as its schema and
\* attribute names that are unique.
C3_StructuralInvariants ==
    \A d \in Ids : RowsFitSchema(d) /\ UniqueNames(d)

\* The kind of an attribute (specification, 4.1): REAL and NUMERIC are one kind.
KindOf(attribute) ==
    IF attribute.nominal THEN "NOMINAL"
    ELSE IF attribute.type[1] \in {"REAL", "NUMERIC"} THEN "NUMERIC"
    ELSE attribute.type[1]

\* Two attributes match in name and in kind or domain (specification, 4.3).
Matches(attribute1, attribute2) ==
    /\ attribute1.name = attribute2.name
    /\ IF attribute1.nominal /\ attribute2.nominal
       THEN attribute1.type = attribute2.type
       ELSE KindOf(attribute1) = KindOf(attribute2)

\* Two attributes are declared alike: the same name and the same type
\* keyword or, for nominal attributes, the same domain.
DeclaredAlike(attribute1, attribute2) ==
    /\ attribute1.name = attribute2.name
    /\ attribute1.nominal = attribute2.nominal
    /\ attribute1.type = attribute2.type

\* The call returned a's relation, schema and description and a's rows
\* followed by b's.
AppendReturned(call) ==
    /\ call.out.kind = "ok"
    /\ DatasetValue(call.out.ds) =
        [relation |-> datasets[call.a].relation,
         attributes |-> AttributesOf(call.a),
         rows |-> RowsOf(call.a) \o RowsOf(call.b),
         description |-> datasets[call.a].description]
    /\ Len(RowsOf(call.out.ds)) = Len(RowsOf(call.a)) + Len(RowsOf(call.b))

\* C4, as claimed: for valid a and b whose schemas have equal length and
\* match position by position in name and kind or domain, whatever their
\* relation names and descriptions, append succeeds and returns a's
\* relation, schema and description and a's rows followed by b's.
C4_AppendWhateverRelation ==
    \A call \in {last} :
        (/\ call.op = "append"
         /\ Valid(call.a) /\ Valid(call.b)
         /\ Len(AttributesOf(call.a)) = Len(AttributesOf(call.b))
         /\ \A i \in 1..Len(AttributesOf(call.a)) :
                Matches(AttributesOf(call.a)[i], AttributesOf(call.b)[i]))
        => AppendReturned(call)

\* C4, amended: the same for valid a and b that have the same relation name
\* and whose schemas have equal length and are declared alike position by
\* position (same name, same type keyword or same nominal domain), whatever
\* their descriptions.
C4_AppendSameRelation ==
    \A call \in {last} :
        (/\ call.op = "append"
         /\ Valid(call.a) /\ Valid(call.b)
         /\ datasets[call.a].relation = datasets[call.b].relation
         /\ Len(AttributesOf(call.a)) = Len(AttributesOf(call.b))
         /\ \A i \in 1..Len(AttributesOf(call.a)) :
                DeclaredAlike(AttributesOf(call.a)[i], AttributesOf(call.b)[i]))
        => AppendReturned(call)

\* An append of two valid data sets with differing descriptions and rows on
\* both sides has returned.
C4_Witness ==
    /\ last.op = "append" /\ last.out.kind = "ok"
    /\ Valid(last.a) /\ Valid(last.b)
    /\ last.a # last.b
    /\ datasets[last.a].description # datasets[last.b].description
    /\ RowsOf(last.a) # RowsOf(last.b)

\* C5: append on schemas of equal length fails (the claim: with
\* SchemaMismatch at position i) and returns no data set whenever there is a
\* first position i at which the names differ, or both attributes are
\* nominal and their domains are not equal, or otherwise their kinds differ.
C5_MismatchRejected ==
    \A call \in {last} :
        (/\ call.op = "append"
         /\ Len(AttributesOf(call.a)) = Len(AttributesOf(call.b))
         /\ \E i \in 1..Len(AttributesOf(call.a)) :
                ~Matches(AttributesOf(call.a)[i], AttributesOf(call.b)[i]))
        => call.out.kind # "ok"

\* C6: append and merge fail (the claim: with SchemaViolation) and return no
\* data set when an input fails validation.
C6_InvalidInputRejected ==
    [][ \A call \in {last'} :
            (/\ call.op \in {"append", "merge"}
             /\ ~(Valid(call.a) /\ Valid(call.b)))
            => call.out.kind # "ok" ]_vars

\* The conditions under which merge is to fail (specification, 4.4).
NotFound(call) ==
    \/ call.name \notin NamesOf(AttributesOf(call.a))
    \/ call.name \notin NamesOf(AttributesOf(call.b))
    \/ \E n \in 1..Len(call.columns) : call.columns[n] \notin NamesOf(AttributesOf(call.b))

Duplicate(call) ==
    \E n \in 1..Len(call.columns) : call.columns[n] \in NamesOf(AttributesOf(call.a))

\* C7, as claimed: merge fails with AttributeNotFound if joinKey is absent
\* from primary or from secondary or a name in columns is absent from
\* secondary, and with DuplicateAttribute if a name in columns exists in
\* primary; in each case nothing is returned and nothing is changed.
C7_MergeRejectsEither ==
    [][ \A call \in {last'} :
            call.op = "merge" =>
                /\ NotFound(call) => AttributeNotFound(call.out)
                /\ Duplicate(call) => DuplicateAttribute(call.out)
                /\ NotFound(call) \/ Duplicate(call) =>
                        call.out.ds = 0 /\ heap' = heap ]_vars

\* C7, amended: merge fails with AttributeNotFound if joinKey is absent from
\* primary or from secondary or a name in columns is absent from secondary,
\* and otherwise with DuplicateAttribute if a name in columns exists in
\* primary; in each case nothing is returned and nothing is changed.
C7_MergeRejects ==
    [][ \A call \in {last'} :
            call.op = "merge" =>
                /\ NotFound(call) => AttributeNotFound(call.out)
                /\ Duplicate(call) /\ ~NotFound(call) => DuplicateAttribute(call.out)
                /\ NotFound(call) \/ Duplicate(call) =>
                        call.out.ds = 0 /\ heap' = heap ]_vars

\* A merge was refused for a column that primary has and secondary lacks.
C7_Witness ==
    /\ last.op = "merge"
    /\ last.name \in NamesOf(AttributesOf(last.a)) \cap NamesOf(AttributesOf(last.b))
    /\ \E n \in 1..Len(last.columns) :
        /\ last.columns[n] \in NamesOf(AttributesOf(last.a))
        /\ last.columns[n] \notin NamesOf(AttributesOf(last.b))
    /\ AttributeNotFound(last.out)

\* The attributes of secondary that columns names, in the order of columns.
SelectedAttributes(secondary, columns) ==
    [n \in 1..Len(columns) |->
        AttributesOf(secondary)[PositionOf(AttributesOf(secondary), columns[n])]]

\* C8: on every successful merge the result's schema is primary's schema as
\* it was before the call followed by the attributes named in columns, taken
\* from secondary's schema in the order of columns; the result's relation is
\* primary's and its description is empty.
C8_MergeSchema ==
    [][ \A call \in {last'} :
            (call.op = "merge" /\ call.out.kind = "ok") =>
                /\ AttributesOf(call.out.ds)' =
                    AttributesOf(call.a) \o SelectedAttributes(call.b, call.columns)
                /\ datasets'[call.out.ds].relation = datasets[call.a].relation
                /\ datasets'[call.out.ds].description = "" ]_vars

\* A merge of two columns, asked for against the order of secondary's
\* schema, has returned rows.
C8_Witness ==
    /\ last.op = "merge" /\ last.out.kind = "ok"
    /\ last.columns = <<"z", "y">>
    /\ Len(datasets[last.out.ds].data) = MaxRows

\* The rearrangements of 1..n.
Rearrangements(n) == {p \in [1..n -> 1..n] : \A i, j \in 1..n : p[i] = p[j] => i = j}

\* after is before, stably sorted ascending by the cell at position k.
StablySorted(before, after, k) ==
    /\ Len(after) = Len(before)
    /\ \E p \in Rearrangements(Len(before)) :
        /\ \A i \in 1..Len(after) : after[i] = before[p[i]]
        /\ \A i, j \in 1..Len(after) :
            i < j => \/ after[i][k] < after[j][k]
                     \/ after[i][k] = after[j][k] /\ p[i] < p[j]

\* C9: sort_by fails with AttributeNotFound and leaves the data set
\* unchanged when the attribute is absent; otherwise it returns the same data
\* set with its rows stably sorted ascending by the cell of that attribute
\* and with schema, relation and description untouched.
C9_SortBy ==
    [][ \A call \in {last'} :
            call.op = "sort_by" =>
                IF call.name \notin NamesOf(AttributesOf(call.a))
                THEN AttributeNotFound(call.out) /\ heap' = heap
                ELSE /\ call.out.kind = "ok"
                     /\ call.out.ds = call.a
                     /\ attrLists' = attrLists /\ rowObjs' = rowObjs
                     /\ datasets' = [datasets EXCEPT ![call.a].data = datasets'[call.a].data]
                     /\ StablySorted(RowsOf(call.a), RowsOf(call.a)',
                                     PositionOf(AttributesOf(call.a), call.name)) ]_vars

\* C10: read fails with InvalidArgument, whatever the parsed table, when the
\* type of 'missing' is none of None, a string, a collection of strings.
C10_InvalidMissingRejected ==
    (readCall.called /\ readCall.type \notin {"NoneType", "str", "unicode", "list", "tuple"})
        => InvalidArgument(readCall.out)

(* The tokens 'missing' configures, and the cell the pass is to leave for  *)
(* a parsed cell: the sentinel for a cell equal to a configured token, the *)
(* parsed cell otherwise.                                                  *)
Configured(call) == {call.tokens[m] : m \in 1..Len(call.tokens)}

Normalized(cell, call) == IF cell \in Configured(call) THEN None ELSE cell

====
